---- MODULE Spec2Model ----
(***************************************************************************)
(* Model of the LZ4 whole-file compressors of the notebook                 *)
(* data_compression/overlapping-communication-compute.ipynb:               *)
(*   write_uncompressed, read_compressed, compress_hw (sequential) and     *)
(*   compress_overlapped (double-buffered), together with the accelerator  *)
(*   they drive through compress_kernel.call / .start / wait.              *)
(* Sizes are scaled down: a block is BLOCK_SIZE bytes, a brick is          *)
(* NBLOCKS blocks (8 in the notebook), the input is at most MaxLen bytes.  *)
(* Arrays are functions over 0..n-1 so that indices read as in the Python. *)
(***************************************************************************)
EXTENDS Integers, Sequences, FiniteSets, TLC

\* ------------------------------------------------------------------ bounds
BLOCK_SIZE == 2
NBLOCKS == 2
MaxLen == 10
Bytes == {0, 1}

BRICK_SIZE == NBLOCKS * BLOCK_SIZE

LZ4_MAGIC == <<4, 34, 77, 24>>
LZ4_HEADER == LZ4_MAGIC \o <<96, 96, 81>>
END_MARK == <<0, 0, 0, 0>>

Min(a, b) == IF a < b THEN a ELSE b

\* ------------------------------------------------------------ Python slices
\* A negative index counts from the end of an array of length n.
NormIndex(i, n) == IF i < 0 THEN i + n ELSE i

\* Bound of a slice a[lo:hi] on an array of length n, clipped as Python does.
ClipIndex(i, n) == IF i < 0 THEN (IF i + n < 0 THEN 0 ELSE i + n) ELSE Min(i, n)

\* a[lo:hi] = v   on an array a over 0..n-1
SliceAssign(a, lo, hi, n, v) ==
  [k \in 0..(n - 1) |->
     IF ClipIndex(lo, n) <= k /\ k < ClipIndex(hi, n) THEN v ELSE a[k]]

\* The size written big-endian: struct.pack('>I', size)
PackU32BE(size) ==
  << (size \div 16777216) % 256, (size \div 65536) % 256, (size \div 256) % 256,
     size % 256 >>

\* struct.pack('<I', size)
PackU32LE(size) ==
  << size % 256, (size \div 256) % 256, (size \div 65536) % 256,
     (size \div 16777216) % 256 >>

UnpackU32LE(s, at) ==
  s[at] + 256 * s[at + 1] + 65536 * s[at + 2] + 16777216 * s[at + 3]

\* ------------------------------------------------------------- accelerator
AllEqual(x) == \A i \in 1..Len(x) : x[i] = x[1]

\* The block compressor of the accelerator: nothing for an empty block, one
\* byte (2*length + value) for a block that is a single run of two or more
\* equal bytes, the literal bytes otherwise.
KernelCompress(x) ==
  IF Len(x) >= 2 /\ AllEqual(x) THEN << 2 * Len(x) + x[1] >> ELSE x

\* Its inverse, as the frame decoder applies it to a block's payload.
BlockDecompress(c) ==
  IF Len(c) = 1 /\ c[1] >= 4
    THEN [i \in 1..(c[1] \div 2) |-> c[1] % 2]
    ELSE c

\* --------------------------------------------------------------- buffers
\* One set of buffers (a slot): in_buffers (flat view of NBLOCKS blocks),
\* out_buffers, uncompressed_size, compressed_size, each with its host copy
\* and its device copy. brick / out_brick remember which packed brick the
\* input data and the accelerator's output belong to (-1: none).
NewSlot(fill) ==
  [ in_host   |-> [j \in 0..(BRICK_SIZE - 1) |-> fill],
    in_dev    |-> [j \in 0..(BRICK_SIZE - 1) |-> fill],
    usize_host |-> [i \in 0..(NBLOCKS - 1) |-> fill],
    usize_dev  |-> [i \in 0..(NBLOCKS - 1) |-> fill],
    out_host  |-> [i \in 0..(NBLOCKS - 1) |-> [j \in 0..(BLOCK_SIZE - 1) |-> fill]],
    out_dev   |-> [i \in 0..(NBLOCKS - 1) |-> [j \in 0..(BLOCK_SIZE - 1) |-> fill]],
    csize_host |-> [i \in 0..(NBLOCKS - 1) |-> fill],
    csize_dev  |-> [i \in 0..(NBLOCKS - 1) |-> fill],
    brick     |-> -1,
    out_brick |-> -1 ]

\* The block count rounded the wrong way: total_size // BLOCK_SIZE + 1.
BlockCountOffByOne(total_size) == (total_size \div BLOCK_SIZE) + 1

\* blocks = ((total_size - 1) // BLOCK_SIZE) + 1   (floor division)
BlockCount(total_size) == ((total_size - 1) \div BLOCK_SIZE) + 1

\* sizes[blocks-1] = total_size % BLOCK_SIZE
LastBlockSize(total_size) == total_size % BLOCK_SIZE

\* The special case for a full brick dropped.
IsFullBrickNever(total_size) == FALSE

\* if total_size == BRICK_SIZE
IsFullBrick(total_size) == total_size = BRICK_SIZE

\* The else branch without its last line, sizes[blocks:8] = 0.
PartialSizesNoZero(sizes, total_size) ==
  LET blocks == ((total_size - 1) \div BLOCK_SIZE) + 1
      s1 == SliceAssign(sizes, 0, blocks - 1, NBLOCKS, BLOCK_SIZE)
  IN  [s1 EXCEPT ![NormIndex(blocks - 1, NBLOCKS)] = total_size % BLOCK_SIZE]

\* The else branch of write_uncompressed: the sizes of a partial brick.
PartialSizes(sizes, total_size) ==
  LET blocks == BlockCount(total_size)
      s1 == SliceAssign(sizes, 0, blocks - 1, NBLOCKS, BLOCK_SIZE)
      s2 == [s1 EXCEPT ![NormIndex(blocks - 1, NBLOCKS)] = LastBlockSize(total_size)]
  IN  SliceAssign(s2, blocks, NBLOCKS, NBLOCKS, 0)

\* The copy to the device left out: the device keeps what it had.
sync_skipped(host, dev) == dev

\* buffers.sync_to_device(), sizes.sync_to_device(): the device copy becomes
\* the host copy.
sync_to_device(host, dev) == host

\* write_uncompressed(data, buffers, sizes) on the buffers of slot s, the
\* window being brick number b of the run. Returns the slot after the call
\* with the function's result (total_size, blocks).
write_uncompressed(data, s, b) ==
  LET total_size == Min(Len(data), BRICK_SIZE)
      buffers == [j \in 0..(BRICK_SIZE - 1) |->
                    IF j < total_size THEN data[j + 1] ELSE s.in_host[j]]
      sizes == IF IsFullBrick(total_size)
                 THEN [i \in 0..(NBLOCKS - 1) |-> BLOCK_SIZE]
                 ELSE PartialSizes(s.usize_host, total_size)
      blocks == IF IsFullBrick(total_size) THEN NBLOCKS ELSE BlockCount(total_size)
  IN  [ slot |-> [s EXCEPT !.in_host = buffers,
                           !.in_dev = sync_to_device(buffers, s.in_dev),
                           !.usize_host = sizes,
                           !.usize_dev = sync_to_device(sizes, s.usize_dev),
                           !.brick = b],
        total_size |-> total_size,
        blocks |-> blocks ]

\* The accelerator processing one brick in slot s: every block i is the
\* first uncompressed_size[i] bytes of in_buffers[i] on the device; its
\* compressed form goes to out_buffers[i] and its length to
\* compressed_size[i].
BlockInput(s, i) ==
  [j \in 1..Min(s.usize_dev[i], BLOCK_SIZE) |-> s.in_dev[i * BLOCK_SIZE + j - 1]]

KernelExec(s) ==
  LET c(i) == KernelCompress(BlockInput(s, i))
  IN  [s EXCEPT
        !.out_dev = [i \in 0..(NBLOCKS - 1) |->
                       [j \in 0..(BLOCK_SIZE - 1) |->
                          IF j < Len(c(i)) THEN c(i)[j + 1] ELSE s.out_dev[i][j]]],
        !.csize_dev = [i \in 0..(NBLOCKS - 1) |-> Len(c(i))],
        !.out_brick = s.brick ]

\* The blocks visited from the last one down to the first.
BlockOrderReversed(blocks) ==
  [k \in 1..ClipIndex(blocks, NBLOCKS) |-> ClipIndex(blocks, NBLOCKS) - k]

\* The order in which read_compressed visits the blocks: zip(sizes[0:blocks],
\* buffers[0:blocks]) yields index 0, 1, ..., blocks-1.
BlockOrder(blocks) == [k \in 1..ClipIndex(blocks, NBLOCKS) |-> k - 1]

\* One pass of the loop of read_compressed over the blocks order[k..]:
\* subbuf = buffer[0:size]; subbuf.sync_from_device(); the size header and
\* the payload are appended to the stream.
RECURSIVE ReadBlocks(_, _, _, _)
ReadBlocks(stream, s, order, k) ==
  IF k > Len(order) THEN [stream |-> stream, slot |-> s]
  ELSE
    LET i == order[k]
        size == s.csize_host[i]
        n == Min(size, BLOCK_SIZE)
        synced == [j \in 0..(BLOCK_SIZE - 1) |->
                     IF j < n THEN s.out_dev[i][j] ELSE s.out_host[i][j]]
        subbuf == [j \in 1..n |-> synced[j - 1]]
    IN  ReadBlocks(stream \o PackU32LE(size) \o subbuf,
                   [s EXCEPT !.out_host[i] = synced], order, k + 1)

\* read_compressed(stream, buffers, sizes, blocks) on the buffers of slot s.
read_compressed(stream, s, blocks) ==
  ReadBlocks(stream, [s EXCEPT !.csize_host = s.csize_dev], BlockOrder(blocks), 1)

\* ---------------------------------------------------------- frame decoder
\* lz4.frame.decompress on a frame of this format: after the header, blocks
\* (4-byte little-endian size, payload) are decoded and concatenated until a
\* block of size 0, the end mark. <<-1>> stands for a decoding error.
Invalid == << -1 >>

RECURSIVE DecodeBlocks(_, _, _)
DecodeBlocks(s, at, acc) ==
  IF at + 3 > Len(s) THEN Invalid
  ELSE LET size == UnpackU32LE(s, at)
       IN  IF size = 0 THEN acc
           ELSE IF at + 3 + size > Len(s) THEN Invalid
           ELSE DecodeBlocks(s, at + 4 + size,
                             acc \o BlockDecompress(SubSeq(s, at + 4, at + 3 + size)))

FrameDecompress(s) ==
  IF Len(s) < Len(LZ4_HEADER) \/ SubSeq(s, 1, Len(LZ4_HEADER)) # LZ4_HEADER
    THEN Invalid
    ELSE DecodeBlocks(s, Len(LZ4_HEADER) + 1, <<>>)

\* ------------------------------------------------------------------ state
VARIABLES
  raw_data,         \* the input of both compressors (test_data)
  pc,               \* position of the notebook's flow
  bufs1,            \* the buffers of cell 2, used by compress_hw
  bufs2,            \* the doubled buffers of cell 12, indexed by 0..1
  stream,           \* the io.BytesIO of the running function
  offset, brick_size, blocks, active, previous_blocks,   \* its locals
  wh,               \* index in handles of the latest handle (0: none)
  handles,          \* the asynchronous calls started so far
  compressed_hw,    \* the stream compress_hw returned
  log,              \* the calls compress_overlapped has made, in order
  records,          \* (brick, block) of every record written to stream
  fault,            \* the accelerator call that raised ("none": no failure)
  \* the live power plot of the sensor notebook
  do_update,        \* the flag thread_func tests
  t_pc,             \* position of the update thread t
  main_pc,          \* position of the main flow in the clean-up cell
  recording,        \* the DataRecorder is running (not stopped)
  clock,            \* the wall clock, time.time()
  samples,          \* recorder.frame, one object that grows in place: the
                    \* time stamps of the recorded rows
  now,              \* thread_func's local now
  ranged,           \* update_data's local ranged (time stamps of its rows)
  average_ranged,   \* update_data's local average_ranged
  shown,            \* time stamps of the rows the plot shows
  late_calls,       \* update_data calls started after do_update was cleared
  stale_read        \* recorder.frame was read after recorder.stop()

compVars == << raw_data, pc, bufs1, bufs2, stream, offset, brick_size, blocks,
               active, previous_blocks, wh, handles, compressed_hw, log,
               records, fault >>

plotVars == << do_update, t_pc, main_pc, recording, clock, samples, now,
               ranged, average_ranged, shown, late_calls, stale_read >>

vars == << compVars, plotVars >>

Inputs == UNION { [1..n -> Bytes] : n \in 0..MaxLen }

\* view[offset:]
ViewFrom(view, off) == SubSeq(view, off + 1, Len(view))

Event(op, slot, brick, size, nblocks) ==
  [op |-> op, slot |-> slot, brick |-> brick, size |-> size, blocks |-> nblocks]

\* (brick, block) tags of the records one read_compressed call writes
RecordTags(s, nblocks) ==
  LET order == BlockOrder(nblocks)
  IN  [k \in 1..Len(order) |-> << s.out_brick, order[k] >>]

Init ==
  /\ raw_data \in Inputs
  /\ pc = "hw_begin"
  /\ \E fill \in Bytes :
       /\ bufs1 = NewSlot(fill)
       /\ bufs2 = [a \in 0..1 |-> NewSlot(fill)]
  /\ stream = <<>>
  /\ offset = 0
  /\ brick_size = 0
  /\ blocks = 0
  /\ active = 0
  /\ previous_blocks = 0
  /\ wh = 0
  /\ handles = <<>>
  /\ compressed_hw = <<>>
  /\ log = <<>>
  /\ records = <<>>
  /\ fault = "none"
  /\ do_update = TRUE
  /\ t_pc = "test"
  /\ main_pc = "live"
  /\ recording = TRUE
  /\ clock = 0
  /\ samples = << >>
  /\ now = 0
  /\ ranged = << >>
  /\ average_ranged = << >>
  /\ shown = << >>
  /\ late_calls = 0
  /\ stale_read = FALSE

\* Number of bricks the running function has packed so far.
NumPacked(l) == Cardinality({k \in 1..Len(l) : l[k].op = "pack"})

\* The flip forgotten: the same slot stays active.
ToggleStuck(a) == a

\* The offset advanced by a whole brick whatever was packed.
AdvanceByBrick(off, size) == off + BRICK_SIZE

\* offset += brick_size
Advance(off, size) == off + size

\* The drain called with the block count of the brick just submitted.
DrainCountCurrent(prev, cur) == cur

\* The block count read_compressed gets in the loop: previous_blocks, which
\* is assigned from blocks only after the call (lines 399-401).
DrainCount(prev, cur) == prev

\* active ^= 1
Toggle(a) == 1 - a

\* A wait that returns without the call having completed.
CompletedAtOnce(h) == TRUE

\* wh.wait() returns once the accelerator has completed the call.
Completed(h) == h.state = "finished"

\* ------------------------------------------------------------ compress_hw
HwBegin ==
  /\ pc = "hw_begin"
  /\ offset' = 0
  /\ stream' = LZ4_HEADER
  /\ log' = <<>>
  /\ records' = <<>>
  /\ pc' = "hw_loop"
  /\ UNCHANGED << plotVars, raw_data, fault, bufs1, bufs2, brick_size, blocks, active,
                  previous_blocks, wh, handles, compressed_hw >>

HwPack ==
  /\ pc = "hw_loop"
  /\ offset < Len(raw_data)
  /\ LET w == write_uncompressed(ViewFrom(raw_data, offset), bufs1, NumPacked(log))
     IN  /\ bufs1' = w.slot
         /\ brick_size' = w.total_size
         /\ blocks' = w.blocks
         /\ log' = Append(log, Event("pack", 0, w.slot.brick, w.total_size, w.blocks))
  /\ pc' = "hw_call"
  /\ UNCHANGED << plotVars, raw_data, fault, bufs2, stream, offset, active, previous_blocks,
                  wh, handles, compressed_hw, records >>

HwCall ==
  /\ pc = "hw_call"
  /\ bufs1' = KernelExec(bufs1)
  /\ log' = Append(log, Event("call", 0, bufs1.brick, brick_size, -1))
  /\ pc' = "hw_read"
  /\ UNCHANGED << plotVars, raw_data, fault, bufs2, stream, offset, brick_size, blocks, active,
                  previous_blocks, wh, handles, compressed_hw, records >>

HwRead ==
  /\ pc = "hw_read"
  /\ LET r == read_compressed(stream, bufs1, blocks)
     IN  /\ stream' = r.stream
         /\ bufs1' = r.slot
  /\ log' = Append(log, Event("unpack", 0, bufs1.out_brick, -1, blocks))
  /\ records' = records \o RecordTags(bufs1, blocks)
  /\ offset' = Advance(offset, brick_size)
  /\ pc' = "hw_loop"
  /\ UNCHANGED << plotVars, raw_data, fault, bufs2, brick_size, blocks, active, previous_blocks,
                  wh, handles, compressed_hw >>

HwReturn ==
  /\ pc = "hw_loop"
  /\ ~(offset < Len(raw_data))
  /\ stream' = stream \o END_MARK
  /\ compressed_hw' = stream'
  /\ pc' = "ov_begin"
  /\ UNCHANGED << plotVars, raw_data, fault, bufs1, bufs2, offset, brick_size, blocks, active,
                  previous_blocks, wh, handles, log, records >>

\* ---------------------------------------------------- compress_overlapped
\* The loop without its wait: straight back to the next start.
AfterPackNoWait == "ov_start"

\* The loop test taken with <=: an empty brick follows the last one.
OvMoreInputInclusive(off, view) == off <= Len(view)

\* if offset < len(view)   (line 402)
OvMoreInput(off, view) == off < Len(view)

\* The wait placed directly after the start: nothing overlaps the call.
AfterStartWait == "ov_wait"

\* Where the loop goes after starting the accelerator: lines 396-404.
AfterStart == "ov_unpack"

\* A failed call retried: the loop starts the accelerator again.
OnFailureRetry == "ov_start"

\* Where the flow goes when start or wait raises: no handler, the exception
\* leaves compress_overlapped.
OnFailure == "raised"

\* Where the loop goes after packing the next brick: the wait of line 407.
AfterPack == "ov_wait"

OvBegin ==
  /\ pc = "ov_begin"
  /\ offset' = 0
  /\ active' = 0
  /\ previous_blocks' = 0
  /\ stream' = LZ4_HEADER
  /\ records' = <<>>
  /\ LET w == write_uncompressed(ViewFrom(raw_data, 0), bufs2[0], 0)
     IN  /\ bufs2' = [bufs2 EXCEPT ![0] = w.slot]
         /\ brick_size' = w.total_size
         /\ blocks' = w.blocks
         /\ log' = << Event("pack", 0, 0, w.total_size, w.blocks) >>
  /\ pc' = "ov_start"
  /\ UNCHANGED << plotVars, raw_data, fault, bufs1, wh, handles, compressed_hw >>

OvStart ==
  /\ pc = "ov_start"
  /\ handles' = Append(handles, [slot |-> active, size |-> brick_size,
                                 brick |-> bufs2[active].brick,
                                 state |-> "started", waited |-> FALSE])
  /\ wh' = Len(handles')
  /\ log' = Append(log, Event("submit", active, bufs2[active].brick, brick_size, -1))
  /\ active' = Toggle(active)
  /\ offset' = Advance(offset, brick_size)
  /\ pc' = AfterStart
  /\ UNCHANGED << plotVars, raw_data, fault, bufs1, bufs2, stream, brick_size, blocks,
                  previous_blocks, compressed_hw, records >>

\* The accelerator completes a call that was started.
KernelRun ==
  \E h \in 1..Len(handles) :
    /\ handles[h].state = "started"
    /\ bufs2' = [bufs2 EXCEPT ![handles[h].slot] = KernelExec(@)]
    /\ handles' = [handles EXCEPT ![h].state = "finished"]
    /\ UNCHANGED << plotVars, raw_data, fault, pc, bufs1, stream, offset, brick_size, blocks,
                    active, previous_blocks, wh, compressed_hw, log, records >>

OvUnpack ==
  /\ pc = "ov_unpack"
  /\ IF previous_blocks # 0
       THEN LET n == DrainCount(previous_blocks, blocks)
                r == read_compressed(stream, bufs2[active], n)
            IN  /\ stream' = r.stream
                /\ bufs2' = [bufs2 EXCEPT ![active] = r.slot]
                /\ log' = Append(log, Event("unpack", active,
                                            bufs2[active].out_brick, -1, n))
                /\ records' = records \o RecordTags(bufs2[active], n)
       ELSE UNCHANGED << stream, bufs2, log, records >>
  /\ previous_blocks' = blocks
  /\ pc' = "ov_more"
  /\ UNCHANGED << plotVars, raw_data, fault, bufs1, offset, brick_size, blocks, active, wh,
                  handles, compressed_hw >>

OvPack ==
  /\ pc = "ov_more"
  /\ OvMoreInput(offset, raw_data)
  /\ LET w == write_uncompressed(ViewFrom(raw_data, offset), bufs2[active],
                                 NumPacked(log))
     IN  /\ bufs2' = [bufs2 EXCEPT ![active] = w.slot]
         /\ brick_size' = w.total_size
         /\ blocks' = w.blocks
         /\ log' = Append(log, Event("pack", active, w.slot.brick,
                                     w.total_size, w.blocks))
  /\ pc' = AfterPack
  /\ UNCHANGED << plotVars, raw_data, fault, bufs1, stream, offset, active, previous_blocks, wh,
                  handles, compressed_hw, records >>

OvBreak ==
  /\ pc = "ov_more"
  /\ ~OvMoreInput(offset, raw_data)
  /\ pc' = "ov_flush"
  /\ UNCHANGED << plotVars, raw_data, fault, bufs1, bufs2, stream, offset, brick_size, blocks,
                  active, previous_blocks, wh, handles, compressed_hw, log,
                  records >>

OvWait ==
  /\ pc = "ov_wait"
  /\ Completed(handles[wh])
  /\ handles' = [handles EXCEPT ![wh].waited = TRUE]
  /\ log' = Append(log, Event("wait", handles[wh].slot, handles[wh].brick, -1, -1))
  /\ pc' = "ov_start"
  /\ UNCHANGED << plotVars, raw_data, fault, bufs1, bufs2, stream, offset, brick_size, blocks,
                  active, previous_blocks, wh, compressed_hw, records >>

OvFlush ==
  /\ pc = "ov_flush"
  /\ Completed(handles[wh])
  /\ handles' = [handles EXCEPT ![wh].waited = TRUE]
  /\ log' = Append(log, Event("wait", handles[wh].slot, handles[wh].brick, -1, -1))
  /\ active' = Toggle(active)
  /\ pc' = "ov_last"
  /\ UNCHANGED << plotVars, raw_data, fault, bufs1, bufs2, stream, offset, brick_size, blocks,
                  previous_blocks, wh, compressed_hw, records >>

OvLast ==
  /\ pc = "ov_last"
  /\ LET r == read_compressed(stream, bufs2[active], previous_blocks)
     IN  /\ stream' = r.stream
         /\ bufs2' = [bufs2 EXCEPT ![active] = r.slot]
  /\ log' = Append(log, Event("unpack", active, bufs2[active].out_brick, -1,
                              previous_blocks))
  /\ records' = records \o RecordTags(bufs2[active], previous_blocks)
  /\ pc' = "ov_term"
  /\ UNCHANGED << plotVars, raw_data, fault, bufs1, offset, brick_size, blocks, active,
                  previous_blocks, wh, handles, compressed_hw >>

OvReturn ==
  /\ pc = "ov_term"
  /\ stream' = stream \o END_MARK
  /\ pc' = "done"
  /\ UNCHANGED << plotVars, raw_data, fault, bufs1, bufs2, offset, brick_size, blocks, active,
                  previous_blocks, wh, handles, compressed_hw, log, records >>

\* compress_kernel.start raises: no handle is returned.
OvStartFails ==
  /\ pc = "ov_start"
  /\ fault' = "start"
  /\ pc' = OnFailure
  /\ UNCHANGED << plotVars, raw_data, bufs1, bufs2, stream, offset, brick_size, blocks,
                  active, previous_blocks, wh, handles, compressed_hw, log,
                  records >>

\* wh.wait() raises, in the loop (line 407) or after it (line 408).
OvWaitFails ==
  /\ pc \in {"ov_wait", "ov_flush"}
  /\ fault' = "wait"
  /\ pc' = OnFailure
  /\ UNCHANGED << plotVars, raw_data, bufs1, bufs2, stream, offset, brick_size, blocks,
                  active, previous_blocks, wh, handles, compressed_hw, log,
                  records >>

Next ==
  \/ HwBegin \/ HwPack \/ HwCall \/ HwRead \/ HwReturn
  \/ OvBegin \/ OvStart \/ KernelRun \/ OvUnpack \/ OvPack \/ OvBreak
  \/ OvWait \/ OvFlush \/ OvLast \/ OvReturn
  \/ OvStartFails \/ OvWaitFails

Spec == Init /\ [][Next]_vars

\* The flow of the notebook's thread when no call of the accelerator fails.
HostStep ==
  \/ HwBegin \/ HwPack \/ HwCall \/ HwRead \/ HwReturn
  \/ OvBegin \/ OvStart \/ OvUnpack \/ OvPack \/ OvBreak
  \/ OvWait \/ OvFlush \/ OvLast \/ OvReturn

LiveNext == HostStep \/ KernelRun

\* The thread keeps running and the accelerator completes every call it was
\* given (so that every wait returns).
\* The control flow does not read the bytes of the input, only its length:
\* the runs start from every length with two contents each.
LiveInputs ==
  UNION { { [i \in 1..n |-> 0], [i \in 1..n |-> i % 2] } : n \in 0..MaxLen }

LiveInit == raw_data \in LiveInputs /\ Init

LiveSpec ==
  LiveInit /\ [][LiveNext]_vars /\ WF_vars(HostStep) /\ WF_vars(KernelRun)

\* -------------------------------------------------------- live power plot
\* The notebook with the live plot: the recorder samples in the background,
\* thread t runs thread_func, the main flow runs the clean-up cell.
MaxSamples == 3
MaxCalls == 3
MaxTime == 3

\* The width of the plotted window, in clock ticks (the code's 60 seconds).
Window == 1

\* The width of the rolling average, in clock ticks (the code's 5 seconds).
Rolling == 1

\* The loop of thread_func written as `while True`.
LoopTestAlways(flag) == TRUE

\* while do_update:
LoopTest(flag) == flag

\* The clean-up cell without its join.
JoinReturnsAtOnce(tpc) == TRUE

\* t.join() returns when thread_func has returned.
JoinReturns(tpc) == tpc = "exit"

\* past = now - pd.tseries.offsets.Second(60)
Past(n) == n - Window

\* frame[start:end] on a time index: the rows stamped from start to end,
\* both ends included.
Ranged(frame, start, end) ==
  SelectSeq(frame, LAMBDA stamp : start <= stamp /\ stamp <= end)

\* Time passes.
Tick ==
  /\ clock < MaxTime
  /\ clock' = clock + 1
  /\ UNCHANGED << compVars, do_update, t_pc, main_pc, recording, samples, now,
                  ranged, average_ranged, shown, late_calls, stale_read >>

\* The recorder started by recorder.record(0.1) adds a row, stamped with the
\* time, to its frame.
RecorderSample ==
  /\ recording
  /\ Len(samples) < MaxSamples
  /\ samples' = Append(samples, clock)
  /\ UNCHANGED << compVars, do_update, t_pc, main_pc, recording, clock, now,
                  ranged, average_ranged, shown, late_calls, stale_read >>

ThreadTest ==
  /\ t_pc = "test"
  /\ t_pc' = IF LoopTest(do_update) THEN "now" ELSE "exit"
  /\ UNCHANGED << compVars, do_update, main_pc, recording, clock, samples, now,
                  ranged, average_ranged, shown, late_calls, stale_read >>

\* now = pd.Timestamp.fromtimestamp(time.time())
ThreadNow ==
  /\ t_pc = "now"
  /\ now' = clock
  /\ t_pc' = "call"
  /\ UNCHANGED << compVars, do_update, main_pc, recording, clock, samples,
                  ranged, average_ranged, shown, late_calls, stale_read >>

\* past and recorder.frame are evaluated and update_data is entered with the
\* recorder's frame object itself.
ThreadCall ==
  /\ t_pc = "call"
  /\ late_calls' = IF do_update THEN late_calls ELSE Min(late_calls + 1, MaxCalls)
  /\ stale_read' = (stale_read \/ ~recording)
  /\ t_pc' = "ranged"
  /\ UNCHANGED << compVars, do_update, main_pc, recording, clock, samples, now,
                  ranged, average_ranged, shown >>

\* ranged = frame[start:end], read from the frame as it is now.
ThreadRanged ==
  /\ t_pc = "ranged"
  /\ ranged' = Ranged(samples, Past(now), now)
  /\ stale_read' = (stale_read \/ ~recording)
  /\ t_pc' = "average"
  /\ UNCHANGED << compVars, do_update, main_pc, recording, clock, samples, now,
                  average_ranged, shown, late_calls >>

\* average_ranged = frame[start-pd.tseries.offsets.Second(5):end], a second
\* read of the frame.
ThreadAverage ==
  /\ t_pc = "average"
  /\ average_ranged' = Ranged(samples, Past(now) - Rolling, now)
  /\ stale_read' = (stale_read \/ ~recording)
  /\ t_pc' = "plot"
  /\ UNCHANGED << compVars, do_update, main_pc, recording, clock, samples, now,
                  ranged, shown, late_calls >>

\* The rest of update_data: both traces are drawn over ranged.index and
\* plot.update(data=data) shows them.
ThreadUpdate ==
  /\ t_pc = "plot"
  /\ shown' = ranged
  /\ t_pc' = "sleep"
  /\ UNCHANGED << compVars, do_update, main_pc, recording, clock, samples, now,
                  ranged, average_ranged, late_calls, stale_read >>

ThreadSleep ==
  /\ t_pc = "sleep"
  /\ t_pc' = "test"
  /\ UNCHANGED << compVars, do_update, main_pc, recording, clock, samples, now,
                  ranged, average_ranged, shown, late_calls, stale_read >>

MainClear ==
  /\ main_pc = "live"
  /\ do_update' = FALSE
  /\ main_pc' = "join"
  /\ UNCHANGED << compVars, t_pc, recording, clock, samples, now, ranged,
                  average_ranged, shown, late_calls, stale_read >>

MainJoin ==
  /\ main_pc = "join"
  /\ JoinReturns(t_pc)
  /\ main_pc' = "stop"
  /\ UNCHANGED << compVars, do_update, t_pc, recording, clock, samples, now,
                  ranged, average_ranged, shown, late_calls, stale_read >>

MainStop ==
  /\ main_pc = "stop"
  /\ recording' = FALSE
  /\ main_pc' = "end"
  /\ UNCHANGED << compVars, do_update, t_pc, clock, samples, now, ranged,
                  average_ranged, shown, late_calls, stale_read >>

ThreadStep ==
  \/ ThreadTest \/ ThreadNow \/ ThreadCall \/ ThreadRanged \/ ThreadAverage
  \/ ThreadUpdate \/ ThreadSleep

CleanupStep == MainJoin \/ MainStop

PlotNext == Tick \/ RecorderSample \/ ThreadStep \/ MainClear \/ CleanupStep

\* No compression runs in this notebook: its state stays as constructed.
PlotInit == raw_data = <<>> /\ Init

\* The update thread is scheduled fairly and update_data returns; the
\* clean-up cell, once started, runs to its end.
PlotSpec ==
  PlotInit /\ [][PlotNext]_vars /\ WF_vars(ThreadStep) /\ WF_vars(CleanupStep)

\* ------------------------------------------------------------- properties
InHw == pc \in {"hw_begin", "hw_loop", "hw_call", "hw_read"}

InOverlapped ==
  pc \in {"ov_start", "ov_unpack", "ov_more", "ov_wait", "ov_flush", "ov_last",
          "ov_term", "done"}

Idx == 1..Len(log)
IsSubmit(k) == log[k].op = "submit"
IsWait(k) == log[k].op = "wait"
IsPack(k) == log[k].op = "pack"
IsUnpack(k) == log[k].op = "unpack"
SameBrick(i, k) == log[i].slot = log[k].slot /\ log[i].brick = log[k].brick

\* Slots with a call that was started and whose handle was not waited on.
SubmittedSlots ==
  {handles[h].slot : h \in {g \in 1..Len(handles) : ~handles[g].waited}}

\* C1: in compress_overlapped no pack and no unpack on a slot happens between
\* a submit on that slot and the wait on that submit's handle: every submit on
\* the slot that precedes a pack or unpack of the slot has its wait in between.
C1_SlotOwnership ==
  InOverlapped =>
    \A j \in Idx : (IsPack(j) \/ IsUnpack(j)) =>
      \A i \in 1..(j - 1) : (IsSubmit(i) /\ log[i].slot = log[j].slot) =>
        \E k \in (i + 1)..(j - 1) : IsWait(k) /\ SameBrick(i, k)

\* A slot was submitted, waited on and then packed again.
C1_Witness ==
  /\ InOverlapped
  /\ \E i \in Idx, j \in Idx :
       i < j /\ IsSubmit(i) /\ IsPack(j) /\ log[i].slot = log[j].slot

\* C2: the stream compress_overlapped returns equals, byte for byte, the
\* stream compress_hw returned for the same input.
C2_SameAsReference == pc = "done" => stream = compressed_hw

\* Both compressors have returned for an input of more than two bricks.
C2_Witness ==
  pc = "done" /\ Len(raw_data) > 2 * BRICK_SIZE /\ stream = compressed_hw

\* C3: decoding the stream compress_overlapped returns yields the input.
C3_RoundTripOverlapped == pc = "done" => FrameDecompress(stream) = raw_data

\* C4: the output of every submitted brick is unpacked exactly once, after
\* the wait on that brick's handle and before any later submit on its slot.
C4_UnpackedOnceAfterWait ==
  InOverlapped =>
    /\ \A u \in Idx : IsUnpack(u) =>
         \E i \in 1..(u - 1) :
           /\ IsSubmit(i) /\ SameBrick(i, u)
           /\ \E k \in (i + 1)..(u - 1) : IsWait(k) /\ SameBrick(i, k)
    /\ \A u \in Idx, v \in Idx :
         (IsUnpack(u) /\ IsUnpack(v) /\ log[u].brick = log[v].brick) => u = v
    /\ \A i \in Idx, j \in Idx :
         (i < j /\ IsSubmit(i) /\ IsSubmit(j) /\ log[i].slot = log[j].slot) =>
           \E u \in (i + 1)..(j - 1) : IsUnpack(u) /\ SameBrick(i, u)
    /\ pc = "done" =>
         \A i \in Idx : IsSubmit(i) => \E u \in Idx : IsUnpack(u) /\ SameBrick(i, u)

\* The run is over and a slot's output was unpacked before the slot was
\* submitted again.
C4_Witness ==
  /\ pc = "done"
  /\ \E i \in Idx, u \in Idx, j \in Idx :
       /\ i < u /\ u < j
       /\ IsSubmit(i) /\ IsUnpack(u) /\ SameBrick(i, u)
       /\ IsSubmit(j) /\ log[j].slot = log[i].slot

\* C5: at most one accelerator call is outstanding (started, not waited on).
C5_OneOutstanding ==
  Cardinality({h \in 1..Len(handles) : ~handles[h].waited}) <= 1

\* A second call is outstanding after the first one was waited on.
C5_Witness ==
  /\ Len(handles) >= 2
  /\ handles[1].waited
  /\ ~handles[2].waited

\* C6 as stated: during a run of compress_overlapped exactly one of the two
\* slots is submitted to the accelerator.
C6_ExactlyOneSubmitted ==
  (InOverlapped /\ pc # "done") => Cardinality(SubmittedSlots) = 1

\* C6 amended: at most one slot is submitted at any instant, and the slot of
\* the host's latest pack or unpack is not a submitted one.
C6_AtMostOneSubmitted ==
  InOverlapped =>
    /\ \A s \in SubmittedSlots, t \in SubmittedSlots : s = t
    /\ (Len(log) > 0 /\ (IsPack(Len(log)) \/ IsUnpack(Len(log)))) =>
         log[Len(log)].slot \notin SubmittedSlots

\* The host has just packed one slot while the other one is submitted.
C6_Witness ==
  /\ InOverlapped
  /\ Len(log) > 0 /\ IsPack(Len(log))
  /\ SubmittedSlots = {1 - log[Len(log)].slot}

\* C7: calls on the same slot are sequenced: a submit on a slot comes after
\* the wait on the handle of every earlier submit on that slot (brick N+2
\* after the wait on brick N).
C7_SlotSequenced ==
  InOverlapped =>
    \A i \in Idx, j \in Idx :
      (i < j /\ IsSubmit(i) /\ IsSubmit(j) /\ log[i].slot = log[j].slot) =>
        /\ log[j].brick >= log[i].brick + 2
        /\ \E k \in (i + 1)..(j - 1) : IsWait(k) /\ SameBrick(i, k)

\* Brick 2 has been submitted on the slot of brick 0.
C7_Witness ==
  /\ InOverlapped
  /\ \E i \in Idx, j \in Idx :
       /\ IsSubmit(i) /\ IsSubmit(j) /\ log[i].slot = log[j].slot
       /\ log[i].brick = 0 /\ log[j].brick = 2

\* The bricks of the unpack calls made so far, in call order.
UnpackIdx == {k \in Idx : IsUnpack(k)}
Before(k) == Cardinality({u \in UnpackIdx : u < k})

\* C8: unpack is called once per brick in submission order (the n-th unpack
\* drains brick n-1), and the records are written in input order: by brick,
\* and within a brick by block index 0..blocks-1.
C8_InputOrder ==
  InOverlapped =>
    /\ \A u \in UnpackIdx : log[u].brick = Before(u)
    /\ \A m \in 1..Len(records), n \in 1..Len(records) :
         m < n => \/ records[m][1] < records[n][1]
                  \/ records[m][1] = records[n][1] /\ records[m][2] < records[n][2]
    /\ \A u \in UnpackIdx :
         Cardinality({m \in 1..Len(records) : records[m][1] = log[u].brick})
           = log[u].blocks

\* The run is over with records of two blocks of brick 0 and one of brick 1.
C8_Witness ==
  /\ pc = "done"
  /\ Len(records) >= 3
  /\ records[1] = << 0, 0 >> /\ records[2] = << 0, 1 >> /\ records[3] = << 1, 0 >>

\* The buffers the latest pack wrote.
PackedSlot ==
  IF InHw \/ pc = "ov_begin" THEN bufs1 ELSE bufs2[log[Len(log)].slot]

\* C9: after a pack of a window of length >= 1 that returned (total_size,
\* blocks), sizes[i] = BLOCK_SIZE for i < blocks-1 and sizes[blocks-1] =
\* total_size - (blocks-1)*BLOCK_SIZE, a value in 1..BLOCK_SIZE.
C9_PackRecordsLengths ==
  (Len(log) > 0 /\ IsPack(Len(log)) /\ log[Len(log)].size >= 1) =>
    LET e == log[Len(log)]
        sizes == PackedSlot.usize_host
    IN  /\ \A i \in 0..(e.blocks - 2) : sizes[i] = BLOCK_SIZE
        /\ sizes[e.blocks - 1] = e.size - (e.blocks - 1) * BLOCK_SIZE
        /\ sizes[e.blocks - 1] \in 1..BLOCK_SIZE

\* C10: for a zero-length input compress_overlapped starts no accelerator call.
C10_NoSubmitOnEmpty == Len(raw_data) = 0 => Len(handles) = 0

\* ------------------------------------------------- properties, second part
Count(op) == Cardinality({k \in Idx : log[k].op = op})
CeilDiv(a, b) == (a + b - 1) \div b
FrameOfNothing == LZ4_HEADER \o END_MARK

\* C11: for an input of length 0 both compressors return exactly the 7-byte
\* header followed by the 4-byte zero terminator, with no record in between.
C11_EmptyInputFrame ==
  (pc = "done" /\ Len(raw_data) = 0) =>
    /\ stream = FrameOfNothing
    /\ compressed_hw = FrameOfNothing
    /\ Len(stream) = 11

\* Both compressors have returned for the empty input, the pipelined one
\* after its one call on the empty brick.
C11_Witness ==
  pc = "done" /\ Len(raw_data) = 0 /\ Count("unpack") = 1 /\ Len(records) = 0

\* C12: for an input of exactly one brick (8 blocks of BLOCK_SIZE) each
\* compressor packs and submits exactly one brick, with every block size set
\* to BLOCK_SIZE, and emits exactly one record per block.
C12_OneFullBrick ==
  (Len(raw_data) = BRICK_SIZE /\ pc # "raised") =>
    /\ NumPacked(log) <= 1
    /\ Count("submit") + Count("call") <= 1
    /\ (Len(log) > 0) =>
         /\ log[1].blocks = NBLOCKS
         /\ \A i \in 0..(NBLOCKS - 1) : PackedSlot.usize_host[i] = BLOCK_SIZE
    /\ (pc \in {"ov_begin", "done"}) =>
         /\ NumPacked(log) = 1
         /\ Count("submit") + Count("call") = 1
         /\ Len(records) = NBLOCKS

\* compress_overlapped has returned for an input of exactly one brick.
C12_Witness ==
  pc = "done" /\ Len(raw_data) = BRICK_SIZE /\ Len(records) = NBLOCKS

\* C13: for an input of one brick plus one byte compress_overlapped processes
\* exactly two bricks; the second has block count 1, sizes[0] = 1 and every
\* other size of its slot 0.
C13_OneByteBrick ==
  (InOverlapped /\ Len(raw_data) = BRICK_SIZE + 1) =>
    /\ NumPacked(log) <= 2
    /\ Count("submit") <= 2
    /\ \A k \in Idx : (IsPack(k) /\ log[k].brick = 1) =>
         /\ log[k].blocks = 1 /\ log[k].size = 1 /\ log[k].slot = 1
         /\ bufs2[1].usize_host[0] = 1
         /\ \A i \in 1..(NBLOCKS - 1) : bufs2[1].usize_host[i] = 0
         /\ bufs2[1].usize_dev = bufs2[1].usize_host
    /\ pc = "done" => (NumPacked(log) = 2 /\ Count("submit") = 2)

\* The run on a brick plus one byte is over, both bricks submitted.
C13_Witness ==
  pc = "done" /\ Len(raw_data) = BRICK_SIZE + 1 /\ Count("submit") = 2

\* C14: for a non-empty input compress_overlapped makes exactly
\* ceil(len/BRICK_SIZE) submissions, packs no empty brick, and ends with
\* exactly one wait and one unpack of the last brick after the loop.
C14_SubmissionCount ==
  (InOverlapped /\ Len(raw_data) > 0) =>
    LET n == CeilDiv(Len(raw_data), BRICK_SIZE)
    IN  /\ Count("submit") <= n
        /\ NumPacked(log) <= n
        /\ \A k \in Idx : IsPack(k) => log[k].size >= 1
        /\ pc = "done" =>
             /\ Count("submit") = n /\ NumPacked(log) = n
             /\ Count("wait") = n /\ Count("unpack") = n
             /\ IsWait(Len(log) - 1) /\ log[Len(log) - 1].brick = n - 1
             /\ IsUnpack(Len(log)) /\ log[Len(log)].brick = n - 1

\* The run is over for an input of exactly two full bricks.
C14_Witness ==
  pc = "done" /\ Len(raw_data) = 2 * BRICK_SIZE /\ Count("submit") = 2

\* C15: every pack returns total_size = min(len(window), 8*BLOCK_SIZE) and
\* blocks = ceil(total_size / BLOCK_SIZE), so 1..8 blocks for a non-empty
\* window, and every brick but the last one packed is a full brick.
C15_BlockCount ==
  \A k \in Idx : IsPack(k) =>
    LET e == log[k]
    IN  /\ e.size = Min(Len(raw_data) - e.brick * BRICK_SIZE, BRICK_SIZE)
        /\ e.blocks = CeilDiv(e.size, BLOCK_SIZE)
        /\ e.size >= 1 => e.blocks \in 1..NBLOCKS
        /\ (\E j \in Idx : j > k /\ IsPack(j)) =>
             (e.blocks = NBLOCKS /\ e.size = BRICK_SIZE)

\* A full brick was packed and then a last brick whose last block is full.
C15_Witness ==
  /\ InOverlapped
  /\ \E k \in Idx : /\ IsPack(k) /\ log[k].brick = 1
                    /\ log[k].size = BLOCK_SIZE /\ log[k].blocks = 1

\* C16: when write_uncompressed packs a partial brick (blocks < 8), every
\* input-size entry of the slot at an index >= blocks is 0 when it returns,
\* on the host and on the device, whatever an earlier brick left there.
C16_StaleSizesZeroed ==
  (pc # "raised" /\ Len(log) > 0 /\ IsPack(Len(log))
     /\ log[Len(log)].blocks < NBLOCKS) =>
    \A i \in log[Len(log)].blocks..(NBLOCKS - 1) :
      PackedSlot.usize_host[i] = 0 /\ PackedSlot.usize_dev[i] = 0

\* A partial brick has just been packed into a slot that held a full brick.
C16_Witness ==
  /\ InOverlapped
  /\ Len(log) > 0 /\ IsPack(Len(log))
  /\ log[Len(log)].brick = 2 /\ log[Len(log)].blocks = 1
  /\ bufs2[0].usize_host[NBLOCKS - 1] = 0

IsPrefix(a, b) == Len(a) <= Len(b) /\ SubSeq(b, 1, Len(a)) = a

\* Position after n records (4-byte little-endian length, payload) that
\* start at position at of s; -1 if s does not hold them.
RECURSIVE SkipRecords(_, _, _)
SkipRecords(s, at, n) ==
  IF n = 0 THEN at
  ELSE IF at + 3 > Len(s) THEN -1
  ELSE LET size == UnpackU32LE(s, at)
       IN  IF at + 3 + size > Len(s) THEN -1
           ELSE SkipRecords(s, at + 4 + size, n - 1)

\* s is the header, n records and the terminator, and nothing else.
Framed(s, n) ==
  /\ IsPrefix(LZ4_HEADER, s)
  /\ LET e == SkipRecords(s, Len(LZ4_HEADER) + 1, n)
     IN  /\ e # -1
         /\ e + 3 = Len(s)
         /\ SubSeq(s, e, e + 3) = END_MARK

\* Number of blocks the packs of the running function declared valid.
RECURSIVE SumBlocks(_, _)
SumBlocks(l, k) ==
  IF k > Len(l) THEN 0
  ELSE (IF l[k].op = "pack" THEN l[k].blocks ELSE 0) + SumBlocks(l, k + 1)

\* C17: the stream of either compressor only grows, starts with the header,
\* and when the function returns it is the header, one record (4-byte
\* little-endian length, that many bytes) per block the packs declared valid,
\* and the terminator as the last bytes; nothing is written after it.
C17_FramedAppendOnly ==
  [][ /\ (pc # "ov_begin") => IsPrefix(stream, stream')
      /\ (stream' # <<>>) => IsPrefix(LZ4_HEADER, stream')
      /\ (pc' \in {"ov_begin", "done"}) => Framed(stream', SumBlocks(log', 1))
      /\ (pc' \notin {"ov_begin", "done"} /\ stream' # <<>>) =>
           SkipRecords(stream', Len(LZ4_HEADER) + 1, Len(records')) = Len(stream') + 1
    ]_vars

\* compress_overlapped has returned a frame of five records or more.
C17_Witness ==
  pc = "done" /\ SumBlocks(log, 1) >= 5 /\ Framed(stream, Len(records))

\* C18: when start or wait fails the failure leaves compress_overlapped at
\* once: the step that fails and every step after it make no pack, submit,
\* wait or unpack, start no call and write nothing to the stream (so no
\* terminator), and the function never resumes.
C18_FailurePropagates ==
  [][ (fault' # "none") =>
        /\ pc' = "raised"
        /\ log' = log
        /\ stream' = stream
        /\ Len(handles') = Len(handles)
        /\ wh' = wh
    ]_vars

\* A wait has failed in the middle of a run, and the accelerator went on to
\* complete the call.
C18_Witness ==
  /\ fault = "wait" /\ pc = "raised"
  /\ Count("submit") = 2 /\ Count("wait") = 1
  /\ handles[2].state = "finished"

\* C19: for every brick N that is not the last one, the pack of brick N+1
\* into the other slot and, for N >= 1, the unpack of brick N-1 both come
\* after the submit of brick N and before the wait on its handle.
C19_Overlap ==
  \A k \in Idx :
    (IsWait(k) /\ log[k].brick < CeilDiv(Len(raw_data), BRICK_SIZE) - 1) =>
      \E i \in 1..(k - 1) :
        /\ IsSubmit(i) /\ SameBrick(i, k)
        /\ \E p \in (i + 1)..(k - 1) :
             /\ IsPack(p) /\ log[p].brick = log[k].brick + 1
             /\ log[p].slot = 1 - log[k].slot
        /\ (log[k].brick >= 1) =>
             \E u \in (i + 1)..(k - 1) :
               IsUnpack(u) /\ log[u].brick = log[k].brick - 1

\* Brick 1 of three has been waited on, brick 0 unpacked and brick 2 packed
\* in the meantime.
C19_Witness ==
  /\ Len(raw_data) > 2 * BRICK_SIZE
  /\ \E k \in Idx : IsWait(k) /\ log[k].brick = 1

\* C20: decoding the stream compress_hw returns yields the input.
C20_RoundTripReference ==
  (~InHw) => FrameDecompress(compressed_hw) = raw_data

\* -------------------------------------------------- properties, third part
InOverlappedCall == ~InHw /\ pc # "ov_begin"

\* Bytes packed by the packs before position k of the log.
RECURSIVE PackedBefore(_, _)
PackedBefore(l, k) ==
  IF k <= 1 THEN 0
  ELSE (IF l[k - 1].op = "pack" THEN l[k - 1].size ELSE 0) + PackedBefore(l, k - 1)

LastSubmit == CHOOSE k \in Idx : IsSubmit(k) /\ \A j \in Idx : IsSubmit(j) => j <= k

\* C21: in compress_overlapped brick i is packed into, submitted on, waited
\* for and unpacked from slot i mod 2, and the unpack after the loop reads the
\* slot of the last submitted brick.
C21_SlotParity ==
  InOverlappedCall =>
    /\ \A k \in Idx : log[k].slot = log[k].brick % 2
    /\ (pc \in {"ov_term", "done"}) =>
         /\ IsUnpack(Len(log))
         /\ log[Len(log)].slot = log[LastSubmit].slot

\* The run is over after three bricks, the last one drained from slot 0.
C21_Witness ==
  /\ pc = "done" /\ Count("unpack") = 3
  /\ log[Len(log)].slot = 0 /\ log[Len(log)].brick = 2

\* C22: every unpack gets the block count pack returned for the brick whose
\* output it drains, and every submit passes the byte length pack returned
\* for the brick that is in the submitted slot.
C22_CountsOfOwnBrick ==
  InOverlappedCall =>
    /\ \A k \in Idx : IsUnpack(k) =>
         \E p \in 1..(k - 1) :
           IsPack(p) /\ SameBrick(p, k) /\ log[p].blocks = log[k].blocks
    /\ \A k \in Idx : IsSubmit(k) =>
         \E p \in 1..(k - 1) :
           /\ IsPack(p) /\ SameBrick(p, k) /\ log[p].size = log[k].size
           /\ \A q \in (p + 1)..(k - 1) : ~(IsPack(q) /\ log[q].slot = log[k].slot)

\* A full brick was drained while the brick packed after it has fewer blocks.
C22_Witness ==
  /\ InOverlappedCall
  /\ \E k \in Idx, p \in Idx :
       /\ IsUnpack(k) /\ log[k].blocks = NBLOCKS
       /\ IsPack(p) /\ p < k /\ log[p].brick = log[k].brick + 1
       /\ log[p].blocks < NBLOCKS

\* C23: the bricks partition the input, in compress_hw and in
\* compress_overlapped: offset never exceeds len(D), each window starts where
\* the previous one ended (the bytes packed are the next bytes of D), every
\* brick but the last is BRICK_SIZE bytes, offset = len(D) after the loop.
C23_Partition ==
  /\ offset <= Len(raw_data)
  /\ \A k \in Idx : (IsPack(k) /\ \E j \in Idx : j > k /\ IsPack(j)) =>
       log[k].size = BRICK_SIZE
  /\ (Len(log) > 0 /\ IsPack(Len(log))) =>
       LET start == PackedBefore(log, Len(log))
       IN  /\ offset = start
           /\ start + log[Len(log)].size <= Len(raw_data)
           /\ \A j \in 0..(log[Len(log)].size - 1) :
                PackedSlot.in_host[j] = raw_data[start + j + 1]
  /\ (pc \in {"ov_begin", "ov_flush", "ov_last", "ov_term", "done"}) =>
       /\ offset = Len(raw_data)
       /\ PackedBefore(log, Len(log) + 1) = Len(raw_data)

\* compress_overlapped has returned for two full bricks and one more byte.
C23_Witness ==
  pc = "done" /\ Len(raw_data) = 2 * BRICK_SIZE + 1 /\ offset = Len(raw_data)

IsSuffix(a, b) ==
  Len(a) <= Len(b) /\ SubSeq(b, Len(b) - Len(a) + 1, Len(b)) = a

\* The records of blocks i..n-1 as they stand in the device copy of slot s.
RECURSIVE DeviceRecords(_, _, _)
DeviceRecords(s, i, n) ==
  IF i >= n THEN <<>>
  ELSE << s.csize_dev[i] % 256, (s.csize_dev[i] \div 256) % 256,
          (s.csize_dev[i] \div 65536) % 256, (s.csize_dev[i] \div 16777216) % 256 >>
       \o [j \in 1..s.csize_dev[i] |-> s.out_dev[i][j - 1]]
       \o DeviceRecords(s, i + 1, n)

\* C25: at every submit the slot's input data and input sizes on the device
\* are the host's latest; after read_compressed the host's compressed sizes
\* and the payload it wrote are the device's.
C25_SyncOrder ==
  /\ (pc = "hw_call") =>
       (bufs1.in_dev = bufs1.in_host /\ bufs1.usize_dev = bufs1.usize_host)
  /\ (pc = "ov_start") =>
       /\ bufs2[active].in_dev = bufs2[active].in_host
       /\ bufs2[active].usize_dev = bufs2[active].usize_host
  /\ (Len(log) > 0 /\ IsUnpack(Len(log))) =>
       LET s == PackedSlot
           n == log[Len(log)].blocks
       IN  /\ s.csize_host = s.csize_dev
           /\ \A i \in 0..(n - 1) : \A j \in 0..(s.csize_dev[i] - 1) :
                s.out_host[i][j] = s.out_dev[i][j]
           /\ (pc \notin {"ov_begin", "done"}) =>
                IsSuffix(DeviceRecords(s, 0, n), stream)

\* Brick 2 is about to be submitted on slot 0, which held brick 0 before.
C25_Witness ==
  /\ pc = "ov_start" /\ active = 0 /\ bufs2[0].brick = 2
  /\ bufs2[0].in_dev = bufs2[0].in_host
  /\ IsUnpack(Len(log) - 2)

\* No record among the first n of s, starting at position at, has length 0 .
RECURSIVE AllNonZero(_, _, _)
AllNonZero(s, at, n) ==
  IF n = 0 THEN TRUE
  ELSE LET size == UnpackU32LE(s, at)
       IN  size # 0 /\ AllNonZero(s, at + 4 + size, n - 1)

\* C26: for a non-empty input no record written before the terminator has a
\* zero length prefix.
C26_NoZeroLengthRecord ==
  (Len(raw_data) > 0 /\ stream # <<>>) =>
    AllNonZero(stream, Len(LZ4_HEADER) + 1, Len(records))

\* C24: when every wait returns compress_overlapped terminates, and when it
\* has returned every handle it got from a submit is completed and was waited
\* on exactly once.
C24_Terminates ==
  /\ <>(pc = "done")
  /\ [](pc = "done" =>
          /\ \A h \in 1..Len(handles) :
               handles[h].waited /\ handles[h].state = "finished"
          /\ Len(handles) = Count("submit")
          /\ \A i \in Idx : IsSubmit(i) =>
               Cardinality({k \in Idx : IsWait(k) /\ SameBrick(i, k)}) = 1
          /\ Count("wait") = Count("submit"))

\* compress_overlapped has returned after three calls, all waited on.
C24_Witness ==
  /\ pc = "done" /\ Len(handles) = 3
  /\ \A h \in 1..3 : handles[h].waited

\* C27: once do_update is False the update thread starts at most one further
\* update_data call and then leaves its loop, so t.join() returns.
C27_ThreadStops ==
  /\ [](late_calls <= 1)
  /\ ((~do_update) ~> (t_pc = "exit"))
  /\ ((main_pc = "join") ~> (main_pc \in {"stop", "end"}))

\* The flag was cleared between the loop test and the call: one late call,
\* then the thread has left and the join has returned.
C27_Witness ==
  late_calls = 1 /\ t_pc = "exit" /\ main_pc \in {"stop", "end"}

\* C28: recorder.stop() runs only after the update thread has terminated, so
\* no update_data call reads recorder.frame after the recorder was stopped.
C28_StopAfterThread ==
  /\ (~recording) => t_pc = "exit"
  /\ (main_pc \in {"stop", "end"}) => t_pc = "exit"
  /\ ~stale_read

\* The shutdown began while an update_data call was about to start; that call
\* read the frame and drew its rows, and only then was the recorder stopped.
C28_Witness ==
  /\ ~recording /\ main_pc = "end" /\ t_pc = "exit"
  /\ late_calls = 1 /\ Len(shown) >= 1

====
